---- MODULE Spec2Model ----
(***************************************************************************)
(* Job posting API: the job routes (create / update / delete), the         *)
(* application submission pipeline (validate, resolve job, persist,        *)
(* notify) and the in-memory employer socket registry of server.js.        *)
(*                                                                         *)
(* JavaScript values are tagged records so that values of different        *)
(* JavaScript types can be compared; strings are sequences of characters.  *)
(***************************************************************************)
EXTENDS Integers, Sequences, FiniteSets, TLC

\* ------------------------------------------------------------------ bounds
\* socket ids handed out by the server (each connection gets a fresh id)
MaxSockets == 2
\* application documents constructed over a run
MaxApps == 2
\* registration requests in flight at once
MaxSignups == 2

\* ------------------------------------------------------------ JS values
Undefined == [t |-> "undefined"]
Str(s) == [t |-> "string", s |-> s]
Num(n) == [t |-> "number", n |-> n]

\* JavaScript truthiness, as used by `a || b`, `!x` and `if (x)`
Truthy(v) ==
  CASE v.t = "undefined" -> FALSE
    [] v.t = "string" -> Len(v.s) > 0
    [] v.t = "number" -> v.n # 0
    [] OTHER -> TRUE

\* a || b
OrElse(a, b) == IF Truthy(a) THEN a ELSE b

\* ------------------------------------------------------- character classes
Digits == {"0", "1", "2", "3", "4", "5", "6", "7", "8", "9"}
HexChars == Digits \cup {"a", "b", "c", "d", "e", "f", "A", "B", "C", "D", "E", "F"}
Letters == {"a", "b", "c", "d", "e", "f", "i", "n", "o", "x", "y", "z", "A", "D", "E", "N", "Y"}

AllIn(s, chars) == \A i \in 1..Len(s) : s[i] \in chars

\* index of the last occurrence of c in s, 0 when there is none
LastIndexOf(s, c) ==
  IF \E i \in 1..Len(s) : s[i] = c
  THEN CHOOSE i \in 1..Len(s) : s[i] = c /\ \A j \in (i + 1)..Len(s) : s[j] # c
  ELSE 0

\* s split at every occurrence of c (String.prototype.split)
RECURSIVE Split(_, _)
Split(s, c) ==
  IF \A i \in 1..Len(s) : s[i] # c
  THEN <<s>>
  ELSE LET k == CHOOSE i \in 1..Len(s) : s[i] = c /\ \A j \in 1..(i - 1) : s[j] # c
       IN <<SubSeq(s, 1, k - 1)>> \o Split(SubSeq(s, k + 1, Len(s)), c)

\* decimal text of a non-negative integer (Number.prototype.toString)
DigitChar(d) == CASE d = 0 -> "0" [] d = 1 -> "1" [] d = 2 -> "2" [] d = 3 -> "3"
                  [] d = 4 -> "4" [] d = 5 -> "5" [] d = 6 -> "6" [] d = 7 -> "7"
                  [] d = 8 -> "8" [] OTHER -> "9"
RECURSIVE DecString(_)
DecString(n) == IF n < 10 THEN <<DigitChar(n)>> ELSE DecString(n \div 10) \o <<DigitChar(n % 10)>>

\* ------------------------------------------------ express-validator checks
\* the text a validator sees: undefined is the empty string
ValidatorToString(v) ==
  CASE v.t = "string" -> v.s
    [] v.t = "number" -> IF v.n < 0 THEN <<"-">> \o DecString(0 - v.n) ELSE DecString(v.n)
    [] OTHER -> <<>>

\* notEmpty(): the text is not of length 0
NotEmpty(v) == Len(ValidatorToString(v)) # 0

\* isMongoId(): 24 hexadecimal characters
MongoIdLen == 24
IsMongoId(v) ==
  LET s == ValidatorToString(v) IN Len(s) = MongoIdLen /\ AllIn(s, HexChars)

\* isNumeric(): /^[+-]?([0-9]*[.])?[0-9]+$/
IsNumeric(v) ==
  LET s == ValidatorToString(v)
      u == IF Len(s) > 0 /\ s[1] \in {"+", "-"} THEN Tail(s) ELSE s
      k == LastIndexOf(u, ".")
      frac == SubSeq(u, k + 1, Len(u))
      int == SubSeq(u, 1, k - 1)
  IN  /\ Len(frac) > 0
      /\ AllIn(frac, Digits)
      /\ AllIn(int, Digits)

\* isEmail(): user@domain, the user part dot-separated non-empty atoms, the
\* domain a fully qualified name whose last label is alphabetic, >= 2 long
EmailAtomChars == Letters \cup Digits \cup {"_", "-", "+"}
DomainLabelChars == Letters \cup Digits \cup {"-"}
MinTldLen == 2
IsEmail(v) ==
  LET s == ValidatorToString(v)
      k == LastIndexOf(s, "@")
      user == Split(SubSeq(s, 1, k - 1), ".")
      domain == Split(SubSeq(s, k + 1, Len(s)), ".")
      tld == domain[Len(domain)]
  IN  /\ k > 0
      /\ \A i \in 1..Len(user) : Len(user[i]) > 0 /\ AllIn(user[i], EmailAtomChars)
      /\ Len(domain) >= 2
      /\ \A i \in 1..Len(domain) : Len(domain[i]) > 0 /\ AllIn(domain[i], DomainLabelChars)
      /\ Len(tld) >= MinTldLen /\ AllIn(tld, Letters)

\* one entry of validationResult(req).array()
FieldError(path, msg) == [path |-> path, msg |-> msg]

\* a validation chain on one field: the error when `ok` fails
Check(ok, path, msg) == IF ok THEN <<>> ELSE <<FieldError(path, msg)>>

\* .optional(): the chain is skipped when the field is undefined
Optional(v, ok, path, msg) == IF v = Undefined THEN <<>> ELSE Check(ok, path, msg)

\* ---------------------------------------------------------------- inputs
Null == [t |-> "null"]

\* two well-formed job ids and a malformed one
J1 == Str([i \in 1..MongoIdLen |-> "a"])
J2 == Str([i \in 1..MongoIdLen |-> "b"])
BadId == Str(<<"a", "b", "c">>)
JobIdInputs == {J1, J2, BadId}

E1 == Str(<<"e", "1">>)
E2 == Str(<<"e", "2">>)
EmployerIds == {E1, E2}

Ann == Str(<<"A", "n", "n">>)

AnnMail == Str(<<"a", "n", "n", "@", "x", ".", "i", "o">>)
NoTldMail == Str(<<"a", "n", "n", "@", "x">>)


\* ----------------------------------------------------------------- state
VARIABLES
  jobs,            \* the Job collection: a set of documents, one per _id
  applications,    \* the Application collection
  nextAppId,       \* number of Application documents constructed so far
  employerSockets, \* server.js employerSockets, as its [key, value] entries in insertion order
  connected,       \* ids of the sockets currently connected
  nextSocket,      \* number of socket ids handed out so far
  pending,         \* the application submission suspended at an await (one at a time)
  resp,            \* the HTTP response sent by the last step, with the request it answers
                   \* and the collaborator call (store, emit) that failed, if one did
  delivered,       \* the newApplication events sockets received during the last step
  employers,       \* the Employer collection
  signups          \* the registrations suspended at an await, one per request slot

vars == <<jobs, applications, nextAppId, employerSockets, connected, nextSocket, pending, resp,
          delivered, employers, signups>>

\* ------------------------------------------------------------ Job model
SalaryRange(min, max) == [t |-> "object", min |-> min, max |-> max]

JobDoc(id, title, description, location, salaryRange, employerId) ==
  [_id |-> id, title |-> title, description |-> description, location |-> location,
   salaryRange |-> salaryRange, employerId |-> employerId]

\* required: true on every path of JobSchema
JobValid(doc) ==
  /\ doc.title # Undefined /\ doc.description # Undefined /\ doc.location # Undefined
  /\ doc.salaryRange.min # Undefined /\ doc.salaryRange.max # Undefined
  /\ doc.employerId # Undefined

\* mutant: a lookup that ignores the id
FindAnyJob(id) == IF jobs = {} THEN Null ELSE CHOOSE j \in jobs : TRUE

\* Job.findById(id): the document or null
FindJobById(id) ==
  IF \E j \in jobs : j._id = id THEN CHOOSE j \in jobs : j._id = id ELSE Null

InitialJob ==
  JobDoc(J1, Str(<<"D", "e", "v">>), Str(<<"c", "o", "d", "e">>), Str(<<"N", "Y">>),
         SalaryRange(Num(60), Num(90)), E1)

\* ------------------------------------------------------ Application model
ApplicationDoc(id, candidateName, candidateEmail, jobId, applicationDate) ==
  [_id |-> id, candidateName |-> candidateName, candidateEmail |-> candidateEmail,
   jobId |-> jobId, applicationDate |-> applicationDate]

\* ------------------------------------------------------ presence registry
Entry(employerId, socketId) == [employerId |-> employerId, socketId |-> socketId]

HasKey(registry, employerId) == \E i \in 1..Len(registry) : registry[i].employerId = employerId
KeyIndex(registry, employerId) == CHOOSE i \in 1..Len(registry) : registry[i].employerId = employerId

\* employerSockets[employerId]
Lookup(registry, employerId) ==
  IF HasKey(registry, employerId)
  THEN registry[KeyIndex(registry, employerId)].socketId
  ELSE Undefined

\* mutant: the first registration of an employer id wins
SetEntryIfAbsent(registry, employerId, socketId) ==
  IF HasKey(registry, employerId)
  THEN registry
  ELSE Append(registry, Entry(employerId, socketId))

\* employerSockets[employerId] = socketId: an existing key keeps its place
SetEntry(registry, employerId, socketId) ==
  IF HasKey(registry, employerId)
  THEN [registry EXCEPT ![KeyIndex(registry, employerId)].socketId = socketId]
  ELSE Append(registry, Entry(employerId, socketId))

RemoveAt(seq, k) == SubSeq(seq, 1, k - 1) \o SubSeq(seq, k + 1, Len(seq))

\* mutant: the disconnect handler drops the oldest entry, whoever's it is
RemoveOldest(registry, socketId) ==
  IF registry = <<>> THEN registry ELSE Tail(registry)

\* the disconnect handler's loop: delete the first entry whose value is the
\* socket's id, then break
RemoveSocket(registry, socketId) ==
  IF \E i \in 1..Len(registry) : registry[i].socketId = socketId
  THEN RemoveAt(registry,
                CHOOSE i \in 1..Len(registry) :
                  /\ registry[i].socketId = socketId
                  /\ \A j \in 1..(i - 1) : registry[j].socketId # socketId)
  ELSE registry

\* ---------------------------------------------------------- Employer model
EmployerDoc(id, name, email, password) ==
  [_id |-> id, name |-> name, email |-> email, password |-> password]

\* bcrypt.hash(password, 10): a digest that only the same password matches
BcryptHash(password) == [t |-> "bcrypt", of |-> password]

\* mutant: a comparison that accepts every password
BcryptCompareAny(password, hash) == TRUE

\* bcrypt.compare(password, hash)
BcryptCompare(password, hash) == hash = BcryptHash(password)

Secret1 == Str(<<"s", "e", "c", "r", "e", "t", "1">>)
Secret2 == Str(<<"s", "e", "c", "r", "e", "t", "2">>)
BobMail == Str(<<"b", "o", "b", "@", "x", ".", "i", "o">>)

\* the employer who owns the stored job
InitialEmployer == EmployerDoc(E1, Ann, AnnMail, BcryptHash(Secret1))

\* Employer.findOne({ email }): a document or null
FindEmployerByEmail(email) ==
  IF \E e \in employers : e.email = email
  THEN CHOOSE e \in employers : e.email = email
  ELSE Null

Slots == 1..MaxSignups

\* ------------------------------------------------------------- responses
NoRequest == [op |-> "none"]

Response(op, req, status, body, calls, fault) ==
  [op |-> op, req |-> req, status |-> status, body |-> body, calls |-> calls,
   fault |-> fault]

\* no response was sent
NoResponse == Response("none", NoRequest, 0, Null, <<>>, "none")

ErrorBody(msg) == [error |-> msg]
ErrorsBody(errors) == [errors |-> errors]

Idle == [pc |-> "idle"]

\* ------------------------------------------------------------------ Init
Init ==
  /\ jobs = {InitialJob}
  /\ applications = {}
  /\ nextAppId = 0
  /\ employerSockets = <<>>
  /\ connected = {}
  /\ nextSocket = 0
  /\ pending = Idle
  /\ resp = NoResponse
  /\ delivered = <<>>
  /\ employers = {InitialEmployer}
  /\ signups = [slot \in Slots |-> Idle]

\* ----------------------------------------------------- socket connections
\* io.on('connection'): a client connects and gets a fresh socket id
Connect ==
  /\ nextSocket < MaxSockets
  /\ nextSocket' = nextSocket + 1
  /\ connected' = connected \cup {Num(nextSocket + 1)}
  /\ resp' = NoResponse
  /\ delivered' = <<>>
  /\ UNCHANGED <<jobs, applications, nextAppId, employerSockets, pending,
                 employers, signups>>

\* socket.on('register'): data.employerId is any value the client sends
Register(socket, employerId) ==
  /\ socket \in connected
  /\ employerSockets' = IF Truthy(employerId)
                        THEN SetEntry(employerSockets, employerId, socket)
                        ELSE employerSockets
  /\ resp' = NoResponse
  /\ delivered' = <<>>
  /\ UNCHANGED <<jobs, applications, nextAppId, connected, nextSocket, pending,
                 employers, signups>>

\* socket.on('disconnect')
Disconnect(socket) ==
  /\ socket \in connected
  /\ connected' = connected \ {socket}
  /\ employerSockets' = RemoveSocket(employerSockets, socket)
  /\ resp' = NoResponse
  /\ delivered' = <<>>
  /\ UNCHANGED <<jobs, applications, nextAppId, nextSocket, pending,
                 employers, signups>>

\* ------------------------------------------------------- authenticateJWT
Token(id, key, expired) == [payload |-> [id |-> id], key |-> key, expired |-> expired]
Bearer(token) == [t |-> "header", scheme |-> "Bearer", token |-> token]
Basic(token) == [t |-> "header", scheme |-> "Basic", token |-> token]

secretKey == "SECRET_KEY"

\* mutant: a verification that ignores the expiry
JwtVerifiesUnexpiring(token) == token.key = secretKey

\* jwt.verify(token, secretKey): the signature is the server's and the token
\* has not expired
JwtVerifies(token) == token.key = secretKey /\ ~token.expired

AuthHeaders ==
  {Undefined, Basic(Token(E1, secretKey, FALSE)),
   Bearer(Token(E1, "forged", FALSE)), Bearer(Token(E1, secretKey, TRUE))}
  \cup {Bearer(Token(e, secretKey, FALSE)) : e \in EmployerIds}

\* the middleware's outcome: next() with req.user set, or a response
AuthenticateJWT(authHeader) ==
  IF authHeader = Undefined \/ authHeader.scheme # "Bearer"
  THEN [ok |-> FALSE, status |-> 401, body |-> ErrorBody("Unauthorized: No token provided.")]
  ELSE IF ~JwtVerifies(authHeader.token)
  THEN [ok |-> FALSE, status |-> 403, body |-> ErrorBody("Forbidden: Invalid or expired token.")]
  ELSE [ok |-> TRUE, user |-> authHeader.token.payload]

\* mutant: the ownership comparison is dropped
IsOwnerAlways(job, user) == TRUE

\* job.employerId.toString() !== req.user.id.toString() is false
IsOwner(job, user) == job.employerId = user.id

\* req.user?.id
UserId(user) == IF user = Undefined THEN Undefined ELSE user.id

\* req.body.salaryRange?.min as the validator reads the path 'salaryRange.min'
Field(object, name) ==
  IF object.t # "object" THEN Undefined
  ELSE IF name = "min" THEN object.min ELSE object.max

JobBody(title, description, location, salaryRange) ==
  [title |-> title, description |-> description, location |-> location,
   salaryRange |-> salaryRange]

Lead == Str(<<"L", "e", "a", "d">>)
Abc == Str(<<"a", "b", "c">>)
JobIds == {J1, J2}

\* the request bodies tried on create and update: nothing, each field alone,
\* salaryRange with one or both bounds, every field, and two invalid ones
JobBodies ==
  {JobBody(Undefined, Undefined, Undefined, Undefined),
   JobBody(Lead, Undefined, Undefined, Undefined),
   JobBody(Undefined, Lead, Undefined, Undefined),
   JobBody(Undefined, Undefined, Lead, Undefined),
   JobBody(Undefined, Undefined, Undefined, SalaryRange(Num(70), Num(95))),
   JobBody(Undefined, Undefined, Undefined, SalaryRange(Num(70), Undefined)),
   JobBody(Undefined, Undefined, Undefined, SalaryRange(Undefined, Num(95))),
   JobBody(Lead, Lead, Lead, SalaryRange(Num(70), Num(95))),
   JobBody(Str(<<>>), Lead, Lead, SalaryRange(Num(70), Num(95))),
   JobBody(Lead, Lead, Lead, SalaryRange(Abc, Num(95)))}

\* ---------------------------------------------------- POST /api/jobs
\* the route's validation chains, in order
CreateValidation(body) ==
  Check(NotEmpty(body.title), "title", "Title is required")
  \o Check(NotEmpty(body.description), "description", "Description is required")
  \o Check(NotEmpty(body.location), "location", "Location is required")
  \o Check(IsNumeric(Field(body.salaryRange, "min")), "salaryRange.min",
           "Minimum salary must be a number")
  \o Check(IsNumeric(Field(body.salaryRange, "max")), "salaryRange.max",
           "Maximum salary must be a number")

\* req.user in the create handler: authenticateJWT is commented out of the
\* route, so nothing sets it, whatever the Authorization header
CreateUser(authHeader) == Undefined

\* ids the store has not used yet
FreshJobIds == {id \in JobIds : \A j \in jobs : j._id # id}

CreateFaults == {"none", "save"}

CreateResult(authHeader, body, fault) ==
  LET errors == CreateValidation(body)
      employerId == UserId(CreateUser(authHeader))
      job == JobDoc(CHOOSE id \in FreshJobIds : TRUE, body.title, body.description,
                    body.location, body.salaryRange, employerId)
      R(status, rbody, calls, struck, newJobs) ==
        [status |-> status, body |-> rbody, calls |-> calls, fault |-> struck, jobs |-> newJobs]
  IN  IF errors # <<>> THEN R(400, ErrorsBody(errors), <<>>, "none", jobs)
      ELSE IF ~Truthy(employerId)
      THEN R(403, ErrorBody("Unauthorized: Employer ID missing."), <<>>, "none", jobs)
      ELSE IF ~JobValid(job)
      THEN R(500, ErrorBody("Server error, could not create job."), <<"save">>, "none", jobs)
      ELSE IF fault = "save"
      THEN R(500, ErrorBody("Server error, could not create job."), <<"save">>, "save", jobs)
      ELSE R(201, job, <<"save">>, "none", jobs \cup {job})

CreateJob(authHeader, body, fault) ==
  LET r == CreateResult(authHeader, body, fault)
  IN  /\ r.status \in {400, 403} \/ FreshJobIds # {}
      /\ jobs' = r.jobs
      /\ resp' = Response("createJob", [body |-> body, authorization |-> authHeader],
                          r.status, r.body, r.calls, r.fault)
      /\ delivered' = <<>>
      /\ UNCHANGED <<applications, nextAppId, employerSockets, connected, nextSocket, pending,
                     employers, signups>>

\* --------------------------------------------------- PUT /api/jobs/:id
\* the route's validation chains, in order
UpdateValidation(id, body) ==
  Check(IsMongoId(id), "id", "Invalid job ID")
  \o Optional(body.title, NotEmpty(body.title), "title", "Title cannot be empty")
  \o Optional(body.description, NotEmpty(body.description), "description",
              "Description cannot be empty")
  \o Optional(body.location, NotEmpty(body.location), "location", "Location cannot be empty")
  \o Optional(Field(body.salaryRange, "min"), IsNumeric(Field(body.salaryRange, "min")),
              "salaryRange.min", "Minimum salary must be a number")
  \o Optional(Field(body.salaryRange, "max"), IsNumeric(Field(body.salaryRange, "max")),
              "salaryRange.max", "Maximum salary must be a number")

\* job.title = title || job.title; ... ; job.salaryRange = salaryRange || job.salaryRange
\* (setting the nested path salaryRange replaces both of its sub-paths)
AssignJob(job, body) ==
  [job EXCEPT !.title = OrElse(body.title, job.title),
              !.description = OrElse(body.description, job.description),
              !.location = OrElse(body.location, job.location),
              !.salaryRange = OrElse(body.salaryRange, job.salaryRange)]

UpdateFaults == {"none", "findById", "save"}

\* err.message of the error a failed store call throws: the driver's text
ErrMessage(call) ==
  IF call = "findById" THEN "store: could not read" ELSE "store: could not save"

UpdateResult(authHeader, id, body, fault) ==
  LET auth == AuthenticateJWT(authHeader)
      errors == UpdateValidation(id, body)
      job == FindJobById(id)
      updated == AssignJob(job, body)
      R(status, rbody, calls, struck, newJobs) ==
        [status |-> status, body |-> rbody, calls |-> calls, fault |-> struck, jobs |-> newJobs]
  IN  IF ~auth.ok THEN R(auth.status, auth.body, <<>>, "none", jobs)
      ELSE IF errors # <<>> THEN R(400, ErrorsBody(errors), <<>>, "none", jobs)
      ELSE IF fault = "findById"
      THEN R(500, ErrorBody(ErrMessage("findById")), <<"findById">>, "findById", jobs)
      ELSE IF job = Null THEN R(404, ErrorBody("Job not found"), <<"findById">>, "none", jobs)
      ELSE IF ~IsOwner(job, auth.user)
      THEN R(403, ErrorBody("Forbidden: You are not authorized to modify this job posting."),
             <<"findById">>, "none", jobs)
      ELSE IF ~JobValid(updated)
      THEN R(500, ErrorBody("Job validation failed"), <<"findById", "save">>, "none", jobs)
      ELSE IF fault = "save"
      THEN R(500, ErrorBody(ErrMessage("save")), <<"findById", "save">>, "save", jobs)
      ELSE R(200, updated, <<"findById", "save">>, "none", (jobs \ {job}) \cup {updated})

UpdateJob(authHeader, id, body, fault) ==
  LET r == UpdateResult(authHeader, id, body, fault)
  IN  /\ jobs' = r.jobs
      /\ resp' = Response("updateJob", [id |-> id, body |-> body, authorization |-> authHeader],
                          r.status, r.body, r.calls, r.fault)
      /\ delivered' = <<>>
      /\ UNCHANGED <<applications, nextAppId, employerSockets, connected, nextSocket, pending,
                     employers, signups>>

\* ------------------------------------------------- DELETE /api/jobs/:id
DeleteFaults == {"none", "findById", "findByIdAndDelete"}

DeleteResult(authHeader, id, fault) ==
  LET auth == AuthenticateJWT(authHeader)
      errors == Check(IsMongoId(id), "id", "Invalid job ID")
      job == FindJobById(id)
      R(status, body, calls, struck, newJobs) ==
        [status |-> status, body |-> body, calls |-> calls, fault |-> struck, jobs |-> newJobs]
  IN  IF ~auth.ok THEN R(auth.status, auth.body, <<>>, "none", jobs)
      ELSE IF errors # <<>> THEN R(400, ErrorsBody(errors), <<>>, "none", jobs)
      ELSE IF fault = "findById"
      THEN R(500, ErrorBody("Server error, could not delete job."), <<"findById">>, "findById", jobs)
      ELSE IF job = Null THEN R(404, ErrorBody("Job not found."), <<"findById">>, "none", jobs)
      ELSE IF ~IsOwner(job, auth.user)
      THEN R(403, ErrorBody("Forbidden: You cannot delete this job."), <<"findById">>, "none", jobs)
      ELSE IF fault = "findByIdAndDelete"
      THEN R(500, ErrorBody("Server error, could not delete job."),
             <<"findById", "findByIdAndDelete">>, "findByIdAndDelete", jobs)
      ELSE R(200, [message |-> "Job deleted successfully."],
             <<"findById", "findByIdAndDelete">>, "none", jobs \ {job})

DeleteJob(authHeader, id, fault) ==
  LET r == DeleteResult(authHeader, id, fault)
  IN  /\ jobs' = r.jobs
      /\ resp' = Response("deleteJob", [id |-> id, authorization |-> authHeader],
                          r.status, r.body, r.calls, r.fault)
      /\ delivered' = <<>>
      /\ UNCHANGED <<applications, nextAppId, employerSockets, connected, nextSocket, pending,
                     employers, signups>>

\* ------------------------------------- POST /api/applications/:jobId/apply
\* mutant: an insert that enforces uniqueness of (candidateEmail, jobId)
InsertUnique(store, doc) ==
  IF \E a \in store : a.candidateEmail = doc.candidateEmail /\ a.jobId = doc.jobId
  THEN store
  ELSE store \cup {doc}

\* mutant: an insert that checks the reference to the Job
InsertIfJobStored(store, doc) ==
  IF \E j \in jobs : j._id = doc.jobId THEN store \cup {doc} ELSE store

\* application.save(): an unconditional insert
InsertApplication(store, doc) == store \cup {doc}

ApplyRequest(jobId, candidateName, candidateEmail) ==
  [jobId |-> jobId, candidateName |-> candidateName, candidateEmail |-> candidateEmail]

\* the submissions tried: well-formed ones for a stored and for an unknown job,
\* and ones with one or with every field invalid
ApplyInputs ==
  {ApplyRequest(J1, Ann, AnnMail), ApplyRequest(J2, Ann, AnnMail),
   ApplyRequest(BadId, Ann, AnnMail), ApplyRequest(J1, Undefined, AnnMail),
   ApplyRequest(J1, Ann, NoTldMail), ApplyRequest(BadId, Str(<<>>), Undefined)}

\* mutant: the email chain is missing
ApplyValidationNoEmail(req) ==
  Check(IsMongoId(req.jobId), "jobId", "Invalid job ID")
  \o Check(NotEmpty(req.candidateName), "candidateName", "Candidate name is required")

\* the route's validation chains, in order
ApplyValidation(req) ==
  Check(IsMongoId(req.jobId), "jobId", "Invalid job ID")
  \o Check(NotEmpty(req.candidateName), "candidateName", "Candidate name is required")
  \o Check(IsEmail(req.candidateEmail), "candidateEmail", "A valid candidate email is required")

\* .select('_id employerId').lean()
ProjectJob(job) == IF job = Null THEN Null ELSE [_id |-> job._id, employerId |-> job.employerId]

\* mutant: the candidate's fields are swapped
NewApplicationSwapped(req, id, now) ==
  ApplicationDoc(Num(id), req.candidateEmail, req.candidateName, req.jobId, Num(now))

\* new Application({candidateName, candidateEmail, jobId}): _id and
\* applicationDate (default Date.now) are generated; the clock is read as the
\* number of documents constructed so far
NewApplication(req, id, now) ==
  ApplicationDoc(Num(id), req.candidateName, req.candidateEmail, req.jobId, Num(now))

\* validationResult(req); then Job.findById is called and the handler suspends
ApplyStart(req) ==
  LET errors == ApplyValidation(req)
  IN  /\ pending = Idle
      /\ errors # <<>> \/ nextAppId < MaxApps
      /\ IF errors # <<>>
         THEN /\ resp' = Response("apply", req, 400, ErrorsBody(errors), <<>>, "none")
              /\ pending' = pending
         ELSE /\ pending' = [pc |-> "findById", req |-> req]
              /\ resp' = NoResponse
      /\ delivered' = <<>>
      /\ UNCHANGED <<jobs, applications, nextAppId, employerSockets, connected, nextSocket,
                     employers, signups>>

\* Job.findById settles; on a job the Application is constructed and
\* application.save() is called
ApplyFind(fails) ==
  LET req == pending.req
      job == ProjectJob(FindJobById(req.jobId))
  IN  /\ pending.pc = "findById"
      /\ IF fails
         THEN /\ resp' = Response("apply", req, 500, ErrorBody("Internal Server Error"),
                                  <<"findById">>, "findById")
              /\ pending' = Idle
              /\ nextAppId' = nextAppId
         ELSE IF job = Null
         THEN /\ resp' = Response("apply", req, 404, ErrorBody("Job not found"),
                                  <<"findById">>, "none")
              /\ pending' = Idle
              /\ nextAppId' = nextAppId
         ELSE /\ pending' = [pc |-> "save", req |-> req, job |-> job,
                           application |-> NewApplication(req, nextAppId + 1, nextAppId + 1)]
              /\ nextAppId' = nextAppId + 1
              /\ resp' = NoResponse
      /\ delivered' = <<>>
      /\ UNCHANGED <<jobs, applications, employerSockets, connected, nextSocket,
                     employers, signups>>

\* application.save() settles
ApplySave(fails) ==
  LET p == pending
  IN  /\ p.pc = "save"
      /\ IF fails
         THEN /\ resp' = Response("apply", p.req, 500, ErrorBody("Internal Server Error"),
                                  <<"findById", "save">>, "save")
              /\ pending' = Idle
              /\ applications' = applications
         ELSE /\ applications' = InsertApplication(applications, p.application)
              /\ pending' = [p EXCEPT !.pc = "emit"]
              /\ resp' = NoResponse
      /\ delivered' = <<>>
      /\ UNCHANGED <<jobs, nextAppId, employerSockets, connected, nextSocket,
                     employers, signups>>

\* the sockets in a room: every socket is alone in the room named by its id
Room(room) == {s \in connected : s = room}

NewApplicationEvent(socket, job, req) ==
  [to |-> socket, event |-> "newApplication",
   data |-> [jobId |-> job._id,
             candidate |-> [candidateName |-> req.candidateName,
                            candidateEmail |-> req.candidateEmail]]]

\* io.to(room).emit(...): one event to every socket in the room
Emit(room, job, req) ==
  LET to == Room(room)
  IN  IF to = {} THEN <<>> ELSE <<NewApplicationEvent(CHOOSE s \in to : TRUE, job, req)>>

\* the handler resumes after save: emit, then respond; a throw of the emit
\* call lands in the handler's catch
ApplyEmit(throws) ==
  LET p == pending
      room == Lookup(employerSockets, p.job.employerId)
      calls == <<"findById", "save", "emit">>
  IN  /\ p.pc = "emit"
      /\ IF throws
         THEN /\ resp' = Response("apply", p.req, 500, ErrorBody("Internal Server Error"),
                                  calls, "emit")
              /\ delivered' = <<>>
         ELSE /\ resp' = Response("apply", p.req, 201, p.application, calls, "none")
              /\ delivered' = Emit(room, p.job, p.req)
      /\ pending' = Idle
      /\ UNCHANGED <<jobs, applications, nextAppId, employerSockets, connected, nextSocket,
                     employers, signups>>

\* ------------------------------------------------------ GET /api/jobs
\* Number(text) for the decimal text of an integer, with or without a sign
RECURSIVE DigitsValue(_)
DigitsValue(s) ==
  IF Len(s) = 0 THEN 0
  ELSE 10 * DigitsValue(SubSeq(s, 1, Len(s) - 1))
       + (CHOOSE d \in 0..9 : DigitChar(d) = s[Len(s)])

ToNumber(v) ==
  LET s == ValidatorToString(v)
  IN  IF Len(s) > 0 /\ s[1] = "-" THEN 0 - DigitsValue(Tail(s))
      ELSE IF Len(s) > 0 /\ s[1] = "+" THEN DigitsValue(Tail(s))
      ELSE DigitsValue(s)

SearchQuery(title, location, minSalary, maxSalary) ==
  [title |-> title, location |-> location, minSalary |-> minSalary, maxSalary |-> maxSalary]

Dev == Str(<<"D", "e", "v">>)
NY == Str(<<"N", "Y">>)
Sixty == Str(<<"6", "0">>)
Seventy == Str(<<"7", "0">>)
Ninety == Str(<<"9", "0">>)

\* the query strings tried: each parameter absent or present, the salary
\* bounds at, below and above stored values, and not numeric
SearchQueries ==
  {SearchQuery(t, l, lo, hi) : t \in {Undefined, Dev}, l \in {Undefined, NY},
                               lo \in {Undefined, Sixty, Seventy, Abc},
                               hi \in {Undefined, Ninety, Abc}}

SearchValidation(query) ==
  Optional(query.minSalary, IsNumeric(query.minSalary), "minSalary",
           "minSalary must be a number")
  \o Optional(query.maxSalary, IsNumeric(query.maxSalary), "maxSalary",
              "maxSalary must be a number")

\* `${title || ''} ${location || ''}`.trim(), as its words
SearchTerms(query) ==
  LET text == ValidatorToString(OrElse(query.title, Str(<<>>))) \o <<" ">>
              \o ValidatorToString(OrElse(query.location, Str(<<>>)))
      words == Split(text, " ")
  IN  {words[i] : i \in {k \in 1..Len(words) : Len(words[k]) > 0}}

Words(v) == LET w == Split(ValidatorToString(v), " ") IN {w[i] : i \in 1..Len(w)}

\* { $text: { $search } } on the text index over title and location: some
\* term is a word of the title or of the location (words are compared as
\* written; the store's case folding and stemming are left out)
TextMatches(job, query) ==
  (Truthy(query.title) \/ Truthy(query.location))
    => SearchTerms(query) \cap (Words(job.title) \cup Words(job.location)) # {}

\* mutant: overlap of the job's range with the bounds
SalaryOverlaps(job, query) ==
  /\ Truthy(query.minSalary) => job.salaryRange.max.n >= ToNumber(query.minSalary)
  /\ Truthy(query.maxSalary) => job.salaryRange.min.n <= ToNumber(query.maxSalary)

\* { 'salaryRange.min': { $gte }, 'salaryRange.max': { $lte } }
SalaryMatches(job, query) ==
  /\ Truthy(query.minSalary) => job.salaryRange.min.n >= ToNumber(query.minSalary)
  /\ Truthy(query.maxSalary) => job.salaryRange.max.n <= ToNumber(query.maxSalary)

\* .select('title description location salaryRange employerId createdAt'), with _id
SelectListed(job) ==
  [_id |-> job._id, title |-> job.title, description |-> job.description,
   location |-> job.location, salaryRange |-> job.salaryRange, employerId |-> job.employerId]

\* a JSON array of documents (in no particular order)
ArrayBody(items) == [t |-> "array", items |-> items]

SearchFaults == {"none", "find"}

SearchResult(query, fault) ==
  LET errors == SearchValidation(query)
      R(status, body, calls, struck) ==
        [status |-> status, body |-> body, calls |-> calls, fault |-> struck]
  IN  IF errors # <<>> THEN R(400, ErrorsBody(errors), <<>>, "none")
      ELSE IF fault = "find"
      THEN R(500, ErrorBody("Internal Server Error"), <<"find">>, "find")
      ELSE R(200, ArrayBody({SelectListed(j) : j \in {k \in jobs : TextMatches(k, query)
                                                                    /\ SalaryMatches(k, query)}}),
             <<"find">>, "none")

SearchJobs(query, fault) ==
  LET r == SearchResult(query, fault)
  IN  /\ resp' = Response("searchJobs", query, r.status, r.body, r.calls, r.fault)
      /\ delivered' = <<>>
      /\ UNCHANGED <<jobs, applications, nextAppId, employerSockets, connected, nextSocket,
                     pending, employers, signups>>

\* -------------------------------------------------- GET /api/jobs/:id
GetFaults == {"none", "findById"}

GetResult(id, fault) ==
  LET errors == Check(IsMongoId(id), "id", "Invalid job ID format")
      job == FindJobById(id)
      R(status, body, calls, struck) ==
        [status |-> status, body |-> body, calls |-> calls, fault |-> struck]
  IN  IF errors # <<>> THEN R(400, ErrorsBody(errors), <<>>, "none")
      ELSE IF fault = "findById"
      THEN R(500, ErrorBody("Internal Server Error"), <<"findById">>, "findById")
      ELSE IF job = Null THEN R(404, ErrorBody("Job not found"), <<"findById">>, "none")
      ELSE R(200, SelectListed(job), <<"findById">>, "none")

GetJob(id, fault) ==
  LET r == GetResult(id, fault)
  IN  /\ resp' = Response("getJob", [id |-> id], r.status, r.body, r.calls, r.fault)
      /\ delivered' = <<>>
      /\ UNCHANGED <<jobs, applications, nextAppId, employerSockets, connected, nextSocket,
                     pending, employers, signups>>

\* ------------------------------------------------ POST /api/auth/login
Credentials(email, password) == [email |-> email, password |-> password]

\* the logins tried: the stored employer with the right and with a wrong
\* password, emails of no employer, and invalid input
LoginInputs ==
  {Credentials(AnnMail, Secret1), Credentials(AnnMail, Secret2),
   Credentials(BobMail, Secret1), Credentials(BobMail, Secret2),
   Credentials(NoTldMail, Secret1), Credentials(AnnMail, Undefined)}

LoginValidation(req) ==
  Check(IsEmail(req.email), "email", "A valid email is required")
  \o Check(NotEmpty(req.password), "password", "Password is required")

\* jwt.sign({ id, email }, secretKey, { expiresIn: '1h' })
LoginToken(employer) ==
  [payload |-> [id |-> employer._id, email |-> employer.email], key |-> secretKey,
   expired |-> FALSE]

LoginFaults == {"none", "findOne", "compare"}

LoginResult(req, fault) ==
  LET errors == LoginValidation(req)
      employer == FindEmployerByEmail(req.email)
      R(status, body, calls, struck) ==
        [status |-> status, body |-> body, calls |-> calls, fault |-> struck]
  IN  IF errors # <<>> THEN R(400, ErrorsBody(errors), <<>>, "none")
      ELSE IF fault = "findOne"
      THEN R(500, ErrorBody("Internal Server Error"), <<"findOne">>, "findOne")
      ELSE IF employer = Null
      THEN R(401, ErrorBody("Invalid email or password"), <<"findOne">>, "none")
      ELSE IF fault = "compare"
      THEN R(500, ErrorBody("Internal Server Error"), <<"findOne", "compare">>, "compare")
      ELSE IF ~BcryptCompare(req.password, employer.password)
      THEN R(401, ErrorBody("Invalid email or password"), <<"findOne", "compare">>, "none")
      ELSE R(200, [token |-> LoginToken(employer)], <<"findOne", "compare">>, "none")

\* the handler reads the store once (findOne) and writes nothing
Login(req, fault) ==
  LET r == LoginResult(req, fault)
  IN  /\ resp' = Response("login", req, r.status, r.body, r.calls, r.fault)
      /\ delivered' = <<>>
      /\ UNCHANGED <<jobs, applications, nextAppId, employerSockets, connected, nextSocket,
                     pending, employers, signups>>

\* --------------------------------------------- POST /api/auth/register
Signup(name, email, password) == [name |-> name, email |-> email, password |-> password]

\* the registrations tried: a new email under two passwords, the stored
\* employer's email, and invalid input
SignupInputs ==
  {Signup(Ann, BobMail, Secret1), Signup(Ann, BobMail, Secret2),
   Signup(Ann, AnnMail, Secret2), Signup(Undefined, BobMail, Str(<<"a", "b", "c">>)),
   Signup(Ann, NoTldMail, Secret1)}

MinPasswordLen == 6

\* isLength({ min: 6 })
IsLength(v, min) == Len(ValidatorToString(v)) >= min

SignupValidation(req) ==
  Check(NotEmpty(req.name), "name", "Name is required")
  \o Check(IsEmail(req.email), "email", "A valid email is required")
  \o Check(IsLength(req.password, MinPasswordLen), "password",
           "Password must be at least 6 characters long")

\* ids for new Employer documents: one not carried by a stored document or
\* by a document waiting to be saved
EmployerIdPool == {Str(<<"e", DigitChar(n)>>) : n \in 1..(2 + MaxSignups)}
UsedEmployerIds ==
  {e._id : e \in employers}
  \cup {signups[slot].employer._id : slot \in {k \in Slots : signups[k].pc = "save"}}
FreshEmployerId == CHOOSE id \in EmployerIdPool : id \notin UsedEmployerIds

\* the unique index on Employer.email: an insert of a taken email is refused
EmailTaken(store, email) == \E e \in store : e.email = email

\* validationResult(req); then Employer.findOne is called and the handler
\* suspends
RegisterEmployerStart(slot, req) ==
  LET errors == SignupValidation(req)
  IN  /\ signups[slot] = Idle
      /\ IF errors # <<>>
         THEN /\ resp' = Response("register", req, 400, ErrorsBody(errors), <<>>, "none")
              /\ signups' = signups
         ELSE /\ signups' = [signups EXCEPT ![slot] = [pc |-> "findOne", req |-> req]]
              /\ resp' = NoResponse
      /\ delivered' = <<>>
      /\ UNCHANGED <<jobs, applications, nextAppId, employerSockets, connected, nextSocket,
                     pending, employers>>

RegisterFindFaults == {"none", "findOne", "hash"}

\* Employer.findOne settles; with no employer of that email the password is
\* hashed, the Employer constructed and employer.save() called
RegisterEmployerFind(slot, fault) ==
  LET req == signups[slot].req
      calls == IF fault = "hash" THEN <<"findOne", "hash">> ELSE <<"findOne">>
  IN  /\ signups[slot].pc = "findOne"
      /\ IF fault = "findOne" \/ (fault = "hash" /\ FindEmployerByEmail(req.email) = Null)
         THEN /\ resp' = Response("register", req, 500, ErrorBody("Internal Server Error"),
                                  calls, fault)
              /\ signups' = [signups EXCEPT ![slot] = Idle]
         ELSE IF FindEmployerByEmail(req.email) # Null
         THEN /\ resp' = Response("register", req, 400,
                                  ErrorBody("Employer with that email already exists"),
                                  <<"findOne">>, "none")
              /\ signups' = [signups EXCEPT ![slot] = Idle]
         ELSE /\ signups' = [signups EXCEPT ![slot] =
                               [pc |-> "save", req |-> req,
                                employer |-> EmployerDoc(FreshEmployerId, req.name, req.email,
                                                         BcryptHash(req.password))]]
              /\ resp' = NoResponse
      /\ delivered' = <<>>
      /\ UNCHANGED <<jobs, applications, nextAppId, employerSockets, connected, nextSocket,
                     pending, employers>>

\* employer.save() settles: the insert, or the store's duplicate key error,
\* which lands in the handler's catch
RegisterEmployerSave(slot, fails) ==
  LET p == signups[slot]
      calls == <<"findOne", "hash", "save">>
  IN  /\ p.pc = "save"
      /\ IF fails
         THEN /\ resp' = Response("register", p.req, 500, ErrorBody("Internal Server Error"),
                                  calls, "save")
              /\ employers' = employers
         ELSE IF EmailTaken(employers, p.employer.email)
         THEN /\ resp' = Response("register", p.req, 500, ErrorBody("Internal Server Error"),
                                  calls, "none")
              /\ employers' = employers
         ELSE /\ resp' = Response("register", p.req, 201,
                                  [message |-> "Employer registered successfully"], calls, "none")
              /\ employers' = employers \cup {p.employer}
      /\ signups' = [signups EXCEPT ![slot] = Idle]
      /\ delivered' = <<>>
      /\ UNCHANGED <<jobs, applications, nextAppId, employerSockets, connected, nextSocket,
                     pending>>

\* ------------------------------------------------------------------ Next
Next ==
  \/ Connect
  \/ \E socket \in connected, employerId \in EmployerIds \cup {Undefined} :
       Register(socket, employerId)
  \/ \E socket \in connected : Disconnect(socket)
  \/ \E req \in ApplyInputs : ApplyStart(req)
  \/ \E fails \in BOOLEAN : ApplyFind(fails)
  \/ \E fails \in BOOLEAN : ApplySave(fails)
  \/ \E throws \in BOOLEAN : ApplyEmit(throws)
  \/ DeleteJob(Bearer(Token(E1, secretKey, FALSE)), J1, "none")

Spec == Init /\ [][Next]_vars

\* the job routes alone.  The requests tried: every body under each valid
\* token on the stored job's id; every credential; every id; every store fault
FullBody == JobBody(Lead, Lead, Lead, SalaryRange(Num(70), Num(95)))
GoodHeaders == {Bearer(Token(e, secretKey, FALSE)) : e \in EmployerIds}
OwnerHeader == Bearer(Token(E1, secretKey, FALSE))
EmptyTitleBody == JobBody(Str(<<>>), Lead, Lead, SalaryRange(Num(70), Num(95)))

JobRequest(authHeader, id, body, fault) ==
  [authHeader |-> authHeader, id |-> id, body |-> body, fault |-> fault]

JobRequests(faults) ==
  {JobRequest(h, J1, b, "none") : h \in GoodHeaders, b \in JobBodies}
  \cup {JobRequest(h, J1, FullBody, "none") : h \in AuthHeaders}
  \cup {JobRequest(OwnerHeader, id, FullBody, "none") : id \in JobIdInputs}
  \cup {JobRequest(OwnerHeader, J1, FullBody, f) : f \in faults}
  \cup {JobRequest(h, id, EmptyTitleBody, "none") : h \in AuthHeaders \ GoodHeaders,
                                                    id \in {BadId, J2}}

NextJobs ==
  \/ \E r \in JobRequests(CreateFaults) : CreateJob(r.authHeader, r.body, r.fault)
  \/ \E r \in JobRequests(UpdateFaults) : UpdateJob(r.authHeader, r.id, r.body, r.fault)
  \/ \E r \in JobRequests(DeleteFaults) : DeleteJob(r.authHeader, r.id, r.fault)

SpecJobs == Init /\ [][NextJobs]_vars

\* the auth routes alone
NextAuth ==
  \/ \E req \in LoginInputs, fault \in LoginFaults : Login(req, fault)
  \/ \E slot \in Slots, req \in SignupInputs : RegisterEmployerStart(slot, req)
  \/ \E slot \in Slots, fault \in RegisterFindFaults : RegisterEmployerFind(slot, fault)
  \/ \E slot \in Slots, fails \in BOOLEAN : RegisterEmployerSave(slot, fails)

SpecAuth == Init /\ [][NextAuth]_vars

\* the read routes, over every store made of some of three job postings
J3 == Str([i \in 1..MongoIdLen |-> "c"])
SeedJobs ==
  {InitialJob,
   JobDoc(J2, Dev, Str(<<"a", "p", "i">>), Str(<<"L", "A">>), SalaryRange(Num(50), Num(100)), E2),
   JobDoc(J3, Str(<<"Q", "A">>), Str(<<"t", "e", "s", "t">>), NY, SalaryRange(Num(70), Num(80)),
          E2)}

InitSearch ==
  /\ jobs \in SUBSET SeedJobs
  /\ applications = {}
  /\ nextAppId = 0
  /\ employerSockets = <<>>
  /\ connected = {}
  /\ nextSocket = 0
  /\ pending = Idle
  /\ resp = NoResponse
  /\ delivered = <<>>
  /\ employers = {InitialEmployer}
  /\ signups = [slot \in Slots |-> Idle]

NextSearch ==
  \/ \E query \in SearchQueries, fault \in SearchFaults : SearchJobs(query, fault)
  \/ \E id \in JobIdInputs \cup {J3}, fault \in GetFaults : GetJob(id, fault)

SpecSearch == InitSearch /\ [][NextSearch]_vars

\* =================================================================== claims
\* the subject of a Bearer token the server accepts, Undefined otherwise
SubjectOf(authHeader) ==
  IF authHeader = Undefined THEN Undefined
  ELSE IF authHeader.scheme = "Bearer" /\ authHeader.token.key = secretKey
          /\ ~authHeader.token.expired
  THEN authHeader.token.payload.id
  ELSE Undefined

\* v if the request supplied it, else the stored value
Supplied(v, old) == IF v = Undefined THEN old ELSE v

\* C1: a submission whose validation, job resolution and persistence all
\* succeeded is answered 201 with the persisted Application, also when the
\* emit call throws
C1_DispatchFailureAbsorbed ==
  (resp.op = "apply" /\ resp.calls = <<"findById", "save", "emit">>
   /\ resp.fault \in {"none", "emit"})
  => (resp.status = 201 /\ resp.body \in applications)

\* C2: POST /jobs with a non-empty title, description and location and numeric
\* salaryRange.min and .max answers 201 with the created Job, which is then in
\* the store, token or no token; the only client-caused failure is 400
C2_CreateJobSucceeds ==
  resp.op = "createJob" =>
    /\ resp.status \in {201, 400, 500}
    /\ (/\ NotEmpty(resp.req.body.title) /\ NotEmpty(resp.req.body.description)
        /\ NotEmpty(resp.req.body.location)
        /\ IsNumeric(Field(resp.req.body.salaryRange, "min"))
        /\ IsNumeric(Field(resp.req.body.salaryRange, "max"))
        /\ resp.fault = "none")
       => (resp.status = 201 /\ resp.body \in jobs /\ resp.body.title = resp.req.body.title)

\* C3: every entry of the registry names a socket that is connected
C3_EntriesAreConnected ==
  \A i \in 1..Len(employerSockets) : employerSockets[i].socketId \in connected

\* C4: an update (with a body that passes validation) or a delete of a stored
\* Job under a valid token whose subject is not the Job's employerId is
\* answered 403 and leaves the Job collection as it was (no store fault)
C4_NonOwnerForbidden ==
  [][\A j \in jobs :
       (/\ resp'.op \in {"updateJob", "deleteJob"}
        /\ resp'.req.id = j._id
        /\ SubjectOf(resp'.req.authorization) # Undefined
        /\ SubjectOf(resp'.req.authorization) # j.employerId
        /\ resp'.fault = "none"
        /\ (resp'.op = "updateJob" => UpdateValidation(resp'.req.id, resp'.req.body) = <<>>))
       => (resp'.status = 403 /\ jobs' = jobs)]_vars

\* C4 witness: a non-owner's update of the stored job was refused by the
\* ownership check
C4_Witness ==
  /\ resp.op = "updateJob" /\ resp.status = 403 /\ resp.calls = <<"findById">>
  /\ SubjectOf(resp.req.authorization) = E2
  /\ \E j \in jobs : j._id = resp.req.id /\ j.employerId = E1

\* C5: the owner's update with any body that passes validation answers 200 and
\* the stored Job has each supplied field at the supplied value and every
\* omitted field (salaryRange.min and .max taken singly) unchanged; the
\* owner's delete answers 200 and the Job is gone
C5_OwnerUpdateApplies ==
  [][\A j \in jobs :
       /\ (/\ resp'.op = "updateJob"
           /\ resp'.req.id = j._id
           /\ SubjectOf(resp'.req.authorization) = j.employerId
           /\ UpdateValidation(resp'.req.id, resp'.req.body) = <<>>
           /\ resp'.fault = "none")
          => /\ resp'.status = 200
             /\ \E k \in jobs' :
                  /\ k._id = j._id /\ k.employerId = j.employerId
                  /\ k.title = Supplied(resp'.req.body.title, j.title)
                  /\ k.description = Supplied(resp'.req.body.description, j.description)
                  /\ k.location = Supplied(resp'.req.body.location, j.location)
                  /\ k.salaryRange.min =
                       Supplied(Field(resp'.req.body.salaryRange, "min"), j.salaryRange.min)
                  /\ k.salaryRange.max =
                       Supplied(Field(resp'.req.body.salaryRange, "max"), j.salaryRange.max)
       /\ (/\ resp'.op = "deleteJob"
           /\ resp'.req.id = j._id
           /\ SubjectOf(resp'.req.authorization) = j.employerId
           /\ resp'.fault = "none")
          => (resp'.status = 200 /\ \A k \in jobs' : k._id # j._id)]_vars

\* C6: a submission answered 201 for a job of employer E delivers exactly one
\* newApplication event {jobId, candidate: {candidateName, candidateEmail}}, to
\* the socket the registry binds to E and to no other; with no entry for E no
\* event is delivered and the submission is still answered 201
C6_OneEventToBoundChannel ==
  [][(pending.pc = "emit" /\ pending' # pending /\ resp'.fault = "none")
     => /\ resp'.status = 201
        /\ delivered' =
             IF \E i \in 1..Len(employerSockets) :
                  employerSockets[i].employerId = pending.job.employerId
             THEN <<[to |-> Lookup(employerSockets, pending.job.employerId),
                     event |-> "newApplication",
                     data |-> [jobId |-> pending.req.jobId,
                               candidate |-> [candidateName |-> pending.req.candidateName,
                                              candidateEmail |-> pending.req.candidateEmail]]]>>
             ELSE <<>>]_vars

\* C7: a validated submission whose jobId is not in the Job collection when it
\* is looked up is answered 404, whatever the registry holds; no Application
\* is constructed or stored and no event is delivered (no store fault)
C7_UnknownJobNotFound ==
  [][(/\ pending.pc = "findById" /\ pending' # pending
      /\ \A j \in jobs : j._id # pending.req.jobId
      /\ resp'.fault = "none")
     => /\ resp'.op = "apply" /\ resp'.req = pending.req /\ resp'.status = 404
        /\ applications' = applications /\ nextAppId' = nextAppId
        /\ delivered' = <<>> /\ pending' = Idle]_vars

\* C7 witness: a 404 for a well-formed unknown jobId while both employers are
\* registered
C7_Witness ==
  /\ resp.op = "apply" /\ resp.status = 404 /\ IsMongoId(resp.req.jobId)
  /\ Len(employerSockets) = 2

\* C8: for valid inputs and a stored job, with no collaborator call failing,
\* the submission goes from lookup to save to emit to 201; the 201 body is a
\* stored Application whose jobId, candidateName and candidateEmail are the
\* request's, with a generated _id and applicationDate
C8_PersistedRecordRoundTrips ==
  [][/\ (resp'.op = "apply" /\ resp'.status = 400) => ApplyValidation(resp'.req) # <<>>
     /\ (/\ pending.pc = "findById" /\ pending' # pending /\ resp'.fault = "none"
         /\ \E j \in jobs : j._id = pending.req.jobId)
        => (pending'.pc = "save" /\ pending'.req = pending.req)
     /\ (pending.pc = "save" /\ pending' # pending /\ resp'.fault = "none")
        => (pending'.pc = "emit" /\ pending'.req = pending.req
            /\ pending'.application \in applications')
     /\ (pending.pc = "emit" /\ pending' # pending /\ resp'.fault = "none")
        => (resp'.status = 201 /\ resp'.req = pending.req
            /\ resp'.body = pending.application)
     /\ (resp'.op = "apply" /\ resp'.status = 201)
        => /\ resp'.body \in applications'
           /\ resp'.body.jobId = resp'.req.jobId
           /\ resp'.body.candidateName = resp'.req.candidateName
           /\ resp'.body.candidateEmail = resp'.req.candidateEmail
           /\ resp'.body._id.t = "number" /\ resp'.body.applicationDate.t = "number"
           /\ \A a \in applications' : a._id = resp'.body._id => a = resp'.body]_vars

\* C8 witness: a 201 whose body is stored
C8_Witness ==
  /\ resp.op = "apply" /\ resp.status = 201 /\ resp.body \in applications
  /\ resp.body.candidateEmail = AnnMail /\ resp.body.jobId = J1

\* C9: application.save() inserts whatever is already stored: the collection
\* grows by exactly one document at each save, never otherwise and never
\* shrinks, documents have distinct ids, and every 201 returns a stored one.
\* So two submissions with the same (candidateEmail, jobId) leave two records
C9_DuplicatesPersist ==
  [][/\ (pending.pc = "save" /\ pending' # pending /\ resp'.fault # "save")
        => /\ Cardinality(applications') = Cardinality(applications) + 1
           /\ pending.application \in applications'
     /\ applications \subseteq applications'
     /\ (applications' # applications => pending.pc = "save")
     /\ \A a, b \in applications' : a._id = b._id => a = b
     /\ (resp'.op = "apply" /\ resp'.status = 201) => resp'.body \in applications']_vars

\* C9 witness: two stored records with the same (candidateEmail, jobId), the
\* second just answered 201
C9_Witness ==
  /\ resp.op = "apply" /\ resp.status = 201
  /\ \E a \in applications :
       /\ a # resp.body
       /\ a.candidateEmail = resp.body.candidateEmail /\ a.jobId = resp.body.jobId

\* the fields of a submission that violate the route's rules
ViolatedFields(req) ==
  {f \in {"jobId", "candidateName", "candidateEmail"} :
     \/ f = "jobId" /\ ~IsMongoId(req.jobId)
     \/ f = "candidateName" /\ ~NotEmpty(req.candidateName)
     \/ f = "candidateEmail" /\ ~IsEmail(req.candidateEmail)}

\* C10: a submission with a malformed jobId, an empty candidateName or an
\* invalid candidateEmail is answered 400 listing exactly the violated fields,
\* with no store call made, nothing stored, nothing delivered, and it never
\* becomes a pending submission
C10_InvalidRejectedFirst ==
  [][/\ (resp'.op = "apply" /\ ViolatedFields(resp'.req) # {})
        => /\ resp'.status = 400
           /\ {resp'.body.errors[i].path : i \in 1..Len(resp'.body.errors)}
                = ViolatedFields(resp'.req)
           /\ resp'.calls = <<>>
           /\ applications' = applications /\ nextAppId' = nextAppId
           /\ delivered' = <<>> /\ pending' = pending /\ jobs' = jobs
     /\ (pending'.pc # "idle") => ViolatedFields(pending'.req) = {}]_vars

\* C10 witness: a 400 naming all three fields
C10_Witness ==
  /\ resp.op = "apply" /\ resp.status = 400 /\ Len(resp.body.errors) = 3
  /\ resp.calls = <<>>

\* C11: an update or a delete with no Bearer token is answered 401, with a
\* forged or an expired token 403 'Invalid or expired token'; the response is
\* made before validation, lookup and the ownership check (no store call, no
\* validation errors in the body, whatever the id and the body are), and the
\* Job collection is unchanged
C11_BadTokenRejectedFirst ==
  [][(resp'.op \in {"updateJob", "deleteJob"}
      /\ SubjectOf(resp'.req.authorization) = Undefined)
     => /\ resp'.status =
             IF resp'.req.authorization = Undefined
                \/ resp'.req.authorization.scheme # "Bearer"
             THEN 401 ELSE 403
        /\ resp'.body = IF resp'.status = 401
                        THEN [error |-> "Unauthorized: No token provided."]
                        ELSE [error |-> "Forbidden: Invalid or expired token."]
        /\ resp'.calls = <<>>
        /\ jobs' = jobs]_vars

\* C11 witness: an expired token on an update whose id is malformed and whose
\* title is empty was answered 403, not 400
C11_Witness ==
  /\ resp.op = "updateJob" /\ resp.status = 403 /\ resp.calls = <<>>
  /\ resp.req.authorization # Undefined
  /\ resp.req.authorization.token.expired
  /\ ~IsMongoId(resp.req.id) /\ ~NotEmpty(resp.req.body.title)

\* C12: a register event binds the employer id to the registering socket,
\* replacing any earlier binding and touching no other id; a binding changes
\* only by a register for its id or by being removed; the registry never holds
\* two entries for one id; and a newApplication event goes to at most one
\* socket, the one the registry binds to the job's employer at that moment
C12_LastRegistrationWins ==
  [][/\ \A s \in connected, e \in EmployerIds :
          Register(s, e) =>
            /\ Lookup(employerSockets', e) = s
            /\ \A o \in EmployerIds \ {e} :
                 Lookup(employerSockets', o) = Lookup(employerSockets, o)
     /\ \A e \in EmployerIds :
          Lookup(employerSockets', e) # Lookup(employerSockets, e) =>
            \/ \E s \in connected : Register(s, e)
            \/ Lookup(employerSockets', e) = Undefined
     /\ \A i, j \in 1..Len(employerSockets') :
          employerSockets'[i].employerId = employerSockets'[j].employerId => i = j
     /\ Len(delivered') <= 1
     /\ \A k \in 1..Len(delivered') :
          /\ pending.pc = "emit"
          /\ delivered'[k].to = Lookup(employerSockets, pending.job.employerId)]_vars

\* C12 witness: with both sockets connected and the registry binding the
\* job's employer to the second one, the event went to the second socket
C12_Witness ==
  /\ connected = {Num(1), Num(2)}
  /\ employerSockets = <<Entry(E1, Num(2))>>
  /\ Len(delivered) = 1 /\ delivered[1].to = Num(2)
  /\ resp.op = "apply" /\ resp.status = 201

\* C13: a login with the email of a stored Employer and a password that is
\* not the one it registered is answered 401 with no token, and status and
\* body are those of a login with an email of no Employer (no store fault)
C13_WrongPasswordIndistinguishable ==
  [][(/\ resp'.op = "login" /\ resp'.fault = "none"
      /\ LoginValidation(resp'.req) = <<>>
      /\ \A e \in employers :
           e.email = resp'.req.email => e.password # BcryptHash(resp'.req.password))
     => /\ resp'.status = 401
        /\ resp'.body = [error |-> "Invalid email or password"]
        /\ \A known, unknown \in LoginInputs :
             (/\ LoginValidation(known) = <<>> /\ LoginValidation(unknown) = <<>>
              /\ \E e \in employers :
                   e.email = known.email /\ e.password # BcryptHash(known.password)
              /\ \A e \in employers : e.email # unknown.email)
             => /\ LoginResult(known, "none").status = LoginResult(unknown, "none").status
                /\ LoginResult(known, "none").body = LoginResult(unknown, "none").body]_vars

\* C13 witness: a wrong password for the stored employer was answered 401
\* after the password comparison
C13_Witness ==
  /\ resp.op = "login" /\ resp.status = 401
  /\ resp.calls = <<"findOne", "compare">>
  /\ \E e \in employers : e.email = resp.req.email

\* C14: no two stored Employers share an email, and a registration (valid
\* input, no store fault) for an email that a stored Employer has when the
\* registration is answered is answered 400 'already exists', also when the
\* email was taken while the registration was in flight
C14_DuplicateIsConflict ==
  [][/\ \A a, b \in employers' : a.email = b.email => a = b
     /\ (/\ resp'.op = "register" /\ resp'.fault = "none"
         /\ SignupValidation(resp'.req) = <<>>
         /\ \E e \in employers : e.email = resp'.req.email)
        => /\ resp'.status = 400
           /\ resp'.body = [error |-> "Employer with that email already exists"]
           /\ employers' = employers]_vars

\* C15: a search with numeric bounds (those given) and no store fault answers
\* 200 with exactly the stored Jobs that match the text filter and have
\* salaryRange.min >= minSalary if minSalary is given and salaryRange.max <=
\* maxSalary if maxSalary is given; so a Job whose min is below minSalary is
\* left out even when its max is above it
C15_SalaryBoundsAreSubsetFilters ==
  (/\ resp.op = "searchJobs" /\ resp.fault = "none"
   /\ resp.req.minSalary # Undefined => IsNumeric(resp.req.minSalary)
   /\ resp.req.maxSalary # Undefined => IsNumeric(resp.req.maxSalary))
  => /\ resp.status = 200
     /\ {item._id : item \in resp.body.items}
          = {j._id : j \in
               {k \in jobs :
                  /\ TextMatches(k, resp.req)
                  /\ resp.req.minSalary # Undefined
                       => k.salaryRange.min.n >= ToNumber(resp.req.minSalary)
                  /\ resp.req.maxSalary # Undefined
                       => k.salaryRange.max.n <= ToNumber(resp.req.maxSalary)}}
     /\ \A item \in resp.body.items :
          \E j \in jobs : j._id = item._id /\ j.salaryRange = item.salaryRange
                            /\ j.title = item.title /\ j.location = item.location

\* C15 witness: a search with minSalary=60 listed a job and left out a stored
\* job whose range 50..100 contains 60
C15_Witness ==
  /\ resp.op = "searchJobs" /\ resp.status = 200
  /\ resp.req.minSalary = Sixty /\ resp.req.maxSalary = Undefined
  /\ resp.req.title = Undefined /\ resp.req.location = Undefined
  /\ resp.body.items # {}
  /\ \E j \in jobs : /\ j.salaryRange.min.n < 60 /\ j.salaryRange.max.n > 60
                       /\ \A item \in resp.body.items : item._id # j._id

\* C16: a request during which a store call (or another collaborator) fails
\* is answered 500 with a body {error: <message>} whose message is not the
\* text of the error that was thrown
C16_FaultsAreOpaque ==
  resp.fault # "none"
  => /\ resp.status = 500
     /\ DOMAIN resp.body = {"error"}
     /\ resp.body.error \notin {ErrMessage(call) : call \in {"findById", "save"}}

\* C17: the owner's delete of a job, arriving while a submission for that job
\* is between its lookup and its insert, answers 200 and removes the job
\* without touching the submission; the insert and the response of that
\* submission then go through with the job gone (201, the Application stored
\* with the deleted job's id); and no delete changes the Application
\* collection
C17_DeleteBetweenLookupAndInsert ==
  [][/\ (/\ resp'.op = "deleteJob" /\ pending.pc = "save"
         /\ resp'.req.id = pending.req.jobId
         /\ \E j \in jobs : /\ j._id = pending.req.jobId
                              /\ j.employerId = SubjectOf(resp'.req.authorization))
        => /\ resp'.status = 200
           /\ \A j \in jobs' : j._id # pending.req.jobId
           /\ pending' = pending
     /\ (/\ pending.pc = "save" /\ pending' # pending /\ resp'.fault = "none"
         /\ \A j \in jobs : j._id # pending.req.jobId)
        => /\ pending'.pc = "emit"
           /\ pending.application \in applications'
           /\ pending.application.jobId = pending.req.jobId
     /\ (/\ pending.pc = "emit" /\ pending' # pending /\ resp'.fault = "none"
         /\ \A j \in jobs : j._id # pending.req.jobId)
        => /\ resp'.status = 201
           /\ resp'.body \in applications'
           /\ \A j \in jobs' : j._id # resp'.body.jobId
     /\ resp'.op = "deleteJob" => applications' = applications]_vars

\* C17 witness: a submission was just answered 201 with a stored Application
\* whose job, found by its lookup, is no longer in the Job collection
C17_Witness ==
  /\ resp.op = "apply" /\ resp.status = 201
  /\ resp.body \in applications
  /\ \A j \in jobs : j._id # resp.body.jobId
  /\ applications = {resp.body}

\* C18: a disconnect of socket c leaves every registry entry whose socket is
\* not c as it was, in place and in order, and adds none; a socket that
\* disconnects while the registry binds no employer to it changes nothing;
\* and an event for an employer bound to a connected socket is delivered to
\* that socket
C18_DisconnectKeepsOtherEntries ==
  [][/\ \A c \in connected :
          connected' = connected \ {c} =>
            /\ SelectSeq(employerSockets', LAMBDA e : e.socketId # c)
                 = SelectSeq(employerSockets, LAMBDA e : e.socketId # c)
            /\ Len(employerSockets') <= Len(employerSockets)
            /\ \A e \in EmployerIds :
                 Lookup(employerSockets, e) # c
                   => Lookup(employerSockets', e) = Lookup(employerSockets, e)
     /\ (/\ pending.pc = "emit" /\ pending' # pending /\ resp'.fault = "none"
         /\ Lookup(employerSockets, pending.job.employerId) \in connected)
        => /\ Len(delivered') = 1
           /\ delivered'[1].to = Lookup(employerSockets, pending.job.employerId)]_vars

\* C18 witness: the first socket has disconnected, the registry still binds
\* the job's employer to the second, and the event went to the second
C18_Witness ==
  /\ nextSocket = 2 /\ connected = {Num(2)}
  /\ Lookup(employerSockets, E1) = Num(2)
  /\ Len(delivered) = 1 /\ delivered[1].to = Num(2)
  /\ resp.op = "apply" /\ resp.status = 201

====
